---- MODULE Spec2Model ----
(***************************************************************************)
(* Model of fetch_zotero_publications.py: the paginated fetcher, the       *)
(* record processor, the field normalizers extract_year and assign_region  *)
(* and the stage sequencing of main.                                       *)
(*                                                                         *)
(* Text is modelled as a sequence of one-character strings, so that        *)
(* strip(), lower(), substring search and the regular expression of        *)
(* extract_year are computed character by character.  The character        *)
(* written "a_macron" stands for the single letter a-with-macron.          *)
(* Sleep durations are in milliseconds.                                    *)
(***************************************************************************)
EXTENDS Integers, Sequences, FiniteSets, TLC

VARIABLES
    pc,                    \* position of the run
    exit_code,             \* process exit status, <<>> while running
    stages,                \* the stages main has entered, in order (history)
    api_key, group_id, collection_key,   \* parsed_args
    base_url,              \* which endpoint main chose
    remote,                \* the remote collection behind the endpoint
    batch_size, start, retry_count, all_items,   \* fetch_all_items locals
    response,              \* the answer to the latest request
    slept,                 \* the sleep made after the latest request (ms)
    requests,              \* number of requests issued (history)
    fail_run,              \* failed requests since the last page (history)
    idx,                   \* process_publications: next entry to visit
    filtered_publications, duplicate_checker, errors,
    empty_skips, seen_skips,             \* history counters of the two skips
    files,                 \* output files written by export_publications
    arg, result            \* argument and result of a normalizer call

vars == << pc, exit_code, stages, api_key, group_id, collection_key, base_url,
           remote, batch_size, start, retry_count, all_items, response, slept,
           requests, fail_run, idx, filtered_publications, duplicate_checker,
           errors, empty_skips, seen_skips, files, arg, result >>

main_vars    == << exit_code, stages, api_key, group_id, collection_key, base_url >>
fetch_vars   == << remote, batch_size, start, retry_count, response, slept,
                   requests, fail_run >>
process_vars == << idx, filtered_publications, duplicate_checker, errors,
                   empty_skips, seen_skips >>
call_vars    == << arg, result >>

----------------------------------------------------------------------------
(* Bounds of the model *)

MaxRemote == 4       \* records in a remote collection (fetch)
MaxBatch == 3        \* explicit page sizes 1..MaxBatch, besides the default
MaxBackoff == 2      \* Backoff directives of 1..MaxBackoff seconds
MaxItems == 3        \* records given to process_publications
MaxMainRemote == 2   \* records in the remote collection of a run of main
MaxChunks == 3       \* text fragments concatenated into a title or a date

----------------------------------------------------------------------------
(* Text helpers *)

Min(a, b) == IF a < b THEN a ELSE b

RECURSIVE Concat(_)
Concat(ss) == IF ss = << >> THEN << >> ELSE Head(ss) \o Concat(Tail(ss))

SeqsUpTo(S, n) == UNION { [1..k -> S] : k \in 0..n }

Digits == {"0", "1", "2", "3", "4", "5", "6", "7", "8", "9"}

LowerLetters == {"a", "b", "c", "d", "e", "f", "g", "h", "i", "j", "k", "l", "m",
                 "n", "o", "p", "q", "r", "s", "t", "u", "v", "w", "x", "y", "z",
                 "a_macron"}

UpperLetters == {"A", "B", "C", "D", "E", "F", "G", "H", "I", "J", "K", "L", "M",
                 "N", "O", "P", "Q", "R", "S", "T", "U", "V", "W", "X", "Y", "Z",
                 "A_MACRON"}

Whitespace == {" "}

LowerOf ==
    ("A" :> "a") @@ ("B" :> "b") @@ ("C" :> "c") @@ ("D" :> "d") @@ ("E" :> "e") @@
    ("F" :> "f") @@ ("G" :> "g") @@ ("H" :> "h") @@ ("I" :> "i") @@ ("J" :> "j") @@
    ("K" :> "k") @@ ("L" :> "l") @@ ("M" :> "m") @@ ("N" :> "n") @@ ("O" :> "o") @@
    ("P" :> "p") @@ ("Q" :> "q") @@ ("R" :> "r") @@ ("S" :> "s") @@ ("T" :> "t") @@
    ("U" :> "u") @@ ("V" :> "v") @@ ("W" :> "w") @@ ("X" :> "x") @@ ("Y" :> "y") @@
    ("Z" :> "z") @@ ("A_MACRON" :> "a_macron")

DigitValue ==
    ("0" :> 0) @@ ("1" :> 1) @@ ("2" :> 2) @@ ("3" :> 3) @@ ("4" :> 4) @@
    ("5" :> 5) @@ ("6" :> 6) @@ ("7" :> 7) @@ ("8" :> 8) @@ ("9" :> 9)

\* str.lower()
LowerChar(c) == IF c \in UpperLetters THEN LowerOf[c] ELSE c
Lower(s) == [i \in 1..Len(s) |-> LowerChar(s[i])]

\* str.strip(): drop leading and trailing whitespace
RECURSIVE LStrip(_)
LStrip(s) == IF s # << >> /\ Head(s) \in Whitespace THEN LStrip(Tail(s)) ELSE s
RECURSIVE RStrip(_)
RStrip(s) ==
    IF s # << >> /\ s[Len(s)] \in Whitespace THEN RStrip(SubSeq(s, 1, Len(s) - 1)) ELSE s
Strip(s) == RStrip(LStrip(s))

\* `needle in haystack` on str
Contains(haystack, needle) ==
    \E p \in 0..(Len(haystack) - Len(needle)) :
        \A k \in 1..Len(needle) : haystack[p + k] = needle[k]

\* any(area in title_lower for area in keywords)
AnyIn(keywords, title_lower) ==
    \E i \in DOMAIN keywords : Contains(title_lower, keywords[i])

----------------------------------------------------------------------------
(* extract_year *)

\* \w and \d of the regular expression
IsWordChar(c) == c \in Digits \cup LowerLetters \cup UpperLetters \cup {"_"}
IsDigit(c) == c \in Digits

\* \b at the gap before position p (1 <= p <= Len(s) + 1): exactly one of the
\* two neighbours is a word character; a string edge counts as a non-word.
WordBefore(s, p) == p > 1 /\ IsWordChar(s[p - 1])
WordAt(s, p) == p <= Len(s) /\ IsWordChar(s[p])
WordBoundary(s, p) == WordBefore(s, p) # WordAt(s, p)

FourDigitsAt(s, p) == p + 3 <= Len(s) /\ \A k \in 0..3 : IsDigit(s[p + k])

\* the pattern \d{4} without the two \b (a plausible slip)
YearPatternNoBoundary(s, p) == FourDigitsAt(s, p)

\* the pattern \b\d{4}\b matched at position p
YearPattern(s, p) ==
    /\ WordBoundary(s, p)
    /\ FourDigitsAt(s, p)
    /\ WordBoundary(s, p + 4)

\* int(match.group(0))
IntOf(s, p) ==
    1000 * DigitValue[s[p]] + 100 * DigitValue[s[p + 1]]
        + 10 * DigitValue[s[p + 2]] + DigitValue[s[p + 3]]

\* re.search: the leftmost position where the pattern matches, 0 if none
Search(s) ==
    LET hits == { p \in 1..Len(s) : YearPattern(s, p) }
    IN  IF hits = {} THEN 0 ELSE CHOOSE p \in hits : \A q \in hits : p <= q

\* An Optional[int] is << >> (None) or << n >>.
extract_year(date_str) ==
    IF date_str = << >> THEN << >>
    ELSE LET m == Search(date_str)
         IN  IF m = 0 THEN << >> ELSE << IntOf(date_str, m) >>

----------------------------------------------------------------------------
(* assign_region *)

HawaiianKeywords ==
  << <<"h", "a", "w", "a", "i">>,
     <<"h", "a", "w", "a", "i", "i">>,
     <<"k", "a", "h", "e", "k", "i", "l", "i">>,
     <<"m", "a", "u", "i">>,
     <<"a", "h", "u">>,
     <<"n", "o", "r", "t", "h", "w", "e", "s", "t", "e", "r", "n">>,
     <<"p", "a", "p", "a", "h", "a_macron", "n", "a", "u", "m", "o", "k", "u",
       "a_macron", "k", "e", "a">>,
     <<"k", "a", "u", "a", "i">>,
     <<"o", "a", "h", "u">>,
     <<"b", "i", "g", " ", "i", "s", "l", "a", "n", "d">> >>

SamoaKeywords ==
  << <<"s", "a", "m", "o", "a">>,
     <<"a", "u", "a">>,
     <<"s", "w", "a", "i", "n", "s">>,
     <<"a", "m", "e", "r", "i", "c", "a", "n", " ", "s", "a", "m", "o", "a">> >>

MarianaKeywords ==
  << <<"g", "u", "a", "m">>,
     <<"m", "a", "r", "i", "a", "n", "a">>,
     <<"s", "a", "i", "p", "a", "n">>,
     <<"t", "i", "n", "i", "a", "n">>,
     <<"r", "o", "t", "a">> >>

PRIAKeywords ==
  << <<"w", "a", "k", "e">>,
     <<"b", "a", "k", "e", "r">>,
     <<"h", "o", "w", "l", "a", "n", "d">>,
     <<"j", "a", "r", "v", "i", "s">>,
     <<"p", "a", "l", "m", "y", "r", "a">>,
     <<"k", "i", "n", "g", "m", "a", "n">>,
     <<"j", "o", "h", "n", "s", "t", "o", "n">>,
     <<"j", "a", "r", "v", "i", "s", "i", "s", "l", "a", "n", "d">> >>

PacificKeyword == <<"p", "a", "c", "i", "f", "i", "c">>

\* the chain with the generic "pacific" test moved ahead of the Mariana and
\* remote-island groups (a plausible slip: the catch-all tested too early)
assign_region_pacific_early(title) ==
    IF title = << >> THEN "Unknown"
    ELSE LET title_lower == Lower(title)
         IN  IF AnyIn(HawaiianKeywords, title_lower) THEN "Hawaiian Archipelago"
             ELSE IF AnyIn(SamoaKeywords, title_lower) THEN "American Samoa"
             ELSE IF Contains(title_lower, PacificKeyword) THEN "Pacific-wide"
             ELSE IF AnyIn(MarianaKeywords, title_lower) THEN "Mariana Archipelago"
             ELSE IF AnyIn(PRIAKeywords, title_lower) THEN "Pacific Remote Island Areas"
             ELSE "Unknown"

assign_region(title) ==
    IF title = << >> THEN "Unknown"
    ELSE LET title_lower == Lower(title)
         IN  IF AnyIn(HawaiianKeywords, title_lower) THEN "Hawaiian Archipelago"
             ELSE IF AnyIn(SamoaKeywords, title_lower) THEN "American Samoa"
             ELSE IF AnyIn(MarianaKeywords, title_lower) THEN "Mariana Archipelago"
             ELSE IF AnyIn(PRIAKeywords, title_lower) THEN "Pacific Remote Island Areas"
             ELSE IF Contains(title_lower, PacificKeyword) THEN "Pacific-wide"
             ELSE "Unknown"

----------------------------------------------------------------------------
(* Raw records and Publications *)

\* A raw record as process_publications sees it.  shape tells where, if at
\* all, its processing raises:
\*   "ok"         every field has the expected type;
\*   "bad_entry"  the entry or its "data" is not a mapping, or the title is not
\*                text: entry.get / data.get / .strip() raises before any
\*                title is known (lines 191-194);
\*   "bad_field"  the title is text but another field is not (a null DOI, a
\*                creator that is not a mapping...): building the record
\*                raises (lines 204-215).
RawRecord(shape, title, date) == [shape |-> shape, title |-> title, date |-> date]

RecA1999      == RawRecord("ok", <<"a">>, <<"1", "9", "9", "9">>)
RecSpA2005    == RawRecord("ok", <<" ", "a">>, <<"2", "0", "0", "5">>)
RecUpperA     == RawRecord("ok", <<"A">>, << >>)
RecUpperA0000 == RawRecord("ok", <<"A">>, <<"0", "0", "0", "0">>)
RecNoTitle    == RawRecord("ok", << >>, <<"2", "0", "0", "5">>)
RecBlankTitle == RawRecord("ok", <<" ">>, <<"1", "9", "9", "9">>)
RecAua        == RawRecord("ok", <<"a", "u", "a", " ">>, <<"2", "0", "0", "5", "-", "1">>)
RecAuaX1999   == RawRecord("ok", <<"a", "u", "a">>, <<"x", "1", "9", "9", "9">>)
RecBadEntry   == RawRecord("bad_entry", << >>, << >>)
RecBadFieldA  == RawRecord("bad_field", <<"a">>, <<"2", "0", "0", "5">>)
RecBadFieldUA == RawRecord("bad_field", <<"A">>, <<"1", "9", "9", "9">>)
RecBadFieldNoTitle == RawRecord("bad_field", << >>, << >>)

ProcessRecords ==
    { RecA1999, RecSpA2005, RecUpperA, RecUpperA0000, RecNoTitle, RecBlankTitle,
      RecAua, RecAuaX1999, RecBadEntry, RecBadFieldA, RecBadFieldUA,
      RecBadFieldNoTitle }

FetchRecords == { RecA1999, RecBadEntry }

MainRecords == { RecA1999, RecSpA2005, RecNoTitle, RecBadEntry, RecBadFieldA }

\* the record built at lines 204-215; src is the position of the raw record
\* it was built from (history)
Publication(title, entry, src) ==
    [ title  |-> title,
      year   |-> extract_year(entry.date),
      region |-> assign_region(title),
      src    |-> src ]

\* key=lambda x: x["year"] or 0
YearKey(pub) == IF pub.year = << >> THEN 0 ELSE pub.year[1]

\* list.sort(key=..., reverse=True) is stable: an element goes after every
\* element whose key is at least its own.
RECURSIVE InsertDesc(_, _)
InsertDesc(sorted, pub) ==
    IF sorted = << >> THEN << pub >>
    ELSE IF YearKey(Head(sorted)) >= YearKey(pub)
         THEN << Head(sorted) >> \o InsertDesc(Tail(sorted), pub)
         ELSE << pub >> \o sorted

RECURSIVE SortRec(_, _)
SortRec(pubs, sorted) ==
    IF pubs = << >> THEN sorted
    ELSE SortRec(Tail(pubs), InsertDesc(sorted, Head(pubs)))

\* the sort left out (a plausible slip)
SortByYearOmitted(pubs) == pubs

SortByYearDesc(pubs) == SortRec(pubs, << >>)

----------------------------------------------------------------------------
(* fetch_all_items *)

max_retries == 3
DefaultBatchSize == 100
ProtocolMaxBatch == 100

BatchSizes == (1..Min(MaxBatch, ProtocolMaxBatch)) \cup {DefaultBatchSize}

\* the page the endpoint serves for start=offset, limit=limit
Page(offset, limit) == SubSeq(remote, offset + 1, Min(offset + limit, Len(remote)))

NoBackoff == [has_backoff |-> FALSE, backoff |-> 0]
BackoffChoices == {NoBackoff} \cup { [has_backoff |-> TRUE, backoff |-> n] : n \in 1..MaxBackoff }

Response(kind, b) == [kind |-> kind, has_backoff |-> b.has_backoff, backoff |-> b.backoff]
NoResponse == Response("none", NoBackoff)

\* lines 153-158
SleepAfterPage(resp) == IF resp.has_backoff THEN 1000 * resp.backoff ELSE 500

\* line 166: time.sleep(2 ** retry_count)
RetryDelay(rc) == 1000 * (2 ^ rc)

\* the test written with > (a plausible slip: one attempt too many)
RetriesExhaustedStrict(rc) == rc > max_retries

\* line 162
RetriesExhausted(rc) == rc >= max_retries

\* the reset of line 150 left out (a plausible slip)
RetryCountKept(rc) == rc

\* line 150
RetryCountAfterPage(rc) == 0

\* the offset left where it was (a plausible slip)
StartNotAdvanced(offset, limit) == offset

\* line 149
NextStart(offset, limit) == offset + limit

\* a request answered with a non-empty page (lines 140-158)
RequestPage ==
    /\ pc = "fetch"
    /\ Page(start, batch_size) # << >>
    /\ \E b \in BackoffChoices :
        /\ response' = Response("page", b)
        /\ slept' = SleepAfterPage(response')
    /\ all_items' = all_items \o Page(start, batch_size)
    /\ start' = NextStart(start, batch_size)
    /\ retry_count' = RetryCountAfterPage(retry_count)
    /\ requests' = requests + 1
    /\ fail_run' = 0
    /\ pc' = "fetch"
    /\ UNCHANGED << remote, batch_size >>
    /\ UNCHANGED << main_vars, process_vars, files, call_vars >>

\* a request answered with an empty page: the loop ends (lines 144-146)
RequestEmpty ==
    /\ pc = "fetch"
    /\ Page(start, batch_size) = << >>
    /\ \E b \in BackoffChoices : response' = Response("empty", b)
    /\ slept' = 0
    /\ requests' = requests + 1
    /\ fail_run' = 0
    /\ pc' = "fetched"
    /\ UNCHANGED << remote, batch_size, start, retry_count, all_items >>
    /\ UNCHANGED << main_vars, process_vars, files, call_vars >>

\* a request that raises RequestException: no answer at all (network error,
\* timeout), or an answer with an error status, which may carry a Backoff
\* header like any other answer (lines 160-166)
RequestFails ==
    /\ pc = "fetch"
    /\ \/ response' = Response("no_response", NoBackoff)
       \/ \E b \in BackoffChoices : response' = Response("http_error", b)
    /\ retry_count' = retry_count + 1
    /\ IF RetriesExhausted(retry_count')
       THEN pc' = "fetched" /\ slept' = 0
       ELSE pc' = "fetch" /\ slept' = RetryDelay(retry_count')
    /\ requests' = requests + 1
    /\ fail_run' = fail_run + 1
    /\ UNCHANGED << remote, batch_size, start, all_items >>
    /\ UNCHANGED << main_vars, process_vars, files, call_vars >>

FetchNext == RequestPage \/ RequestEmpty \/ RequestFails

----------------------------------------------------------------------------
(* process_publications *)

\* line 194: data.get("title", "").strip()
TitleOf(entry) == Strip(entry.title)

\* the test left out: nothing is ever a duplicate (a plausible slip)
NeverDuplicate(title, seen) == FALSE

\* line 199
IsDuplicate(title, seen) == title \in seen

\* the error left uncounted (a plausible slip)
ErrorsNotCounted(n) == n

\* line 221
ErrorsAfterRaise(n) == n + 1

\* line 230: the "Duplicates removed" figure
DuplicatesRemoved == Len(all_items) - Len(filtered_publications) - errors

InLoop == pc = "process" /\ idx <= Len(all_items)

\* entry.get / data.get / .strip() raises before a title is known; the
\* handler of lines 219-222 counts it
EntryRaises ==
    /\ InLoop
    /\ all_items[idx].shape = "bad_entry"
    /\ errors' = ErrorsAfterRaise(errors)
    /\ idx' = idx + 1
    /\ UNCHANGED << pc, all_items, filtered_publications, duplicate_checker,
                    empty_skips, seen_skips >>
    /\ UNCHANGED << main_vars, fetch_vars, files, call_vars >>

\* lines 195-196
SkipEmptyTitle ==
    /\ InLoop
    /\ all_items[idx].shape # "bad_entry"
    /\ TitleOf(all_items[idx]) = << >>
    /\ empty_skips' = empty_skips + 1
    /\ idx' = idx + 1
    /\ UNCHANGED << pc, all_items, filtered_publications, duplicate_checker,
                    errors, seen_skips >>
    /\ UNCHANGED << main_vars, fetch_vars, files, call_vars >>

\* lines 199-200
SkipDuplicate ==
    /\ InLoop
    /\ all_items[idx].shape # "bad_entry"
    /\ TitleOf(all_items[idx]) # << >>
    /\ IsDuplicate(TitleOf(all_items[idx]), duplicate_checker)
    /\ seen_skips' = seen_skips + 1
    /\ idx' = idx + 1
    /\ UNCHANGED << pc, all_items, filtered_publications, duplicate_checker,
                    errors, empty_skips >>
    /\ UNCHANGED << main_vars, fetch_vars, files, call_vars >>

\* line 201 records the title, then building the record raises (lines
\* 204-215) and the handler counts it
BuildRaises ==
    /\ InLoop
    /\ all_items[idx].shape = "bad_field"
    /\ TitleOf(all_items[idx]) # << >>
    /\ ~IsDuplicate(TitleOf(all_items[idx]), duplicate_checker)
    /\ duplicate_checker' = duplicate_checker \cup { TitleOf(all_items[idx]) }
    /\ errors' = ErrorsAfterRaise(errors)
    /\ idx' = idx + 1
    /\ UNCHANGED << pc, all_items, filtered_publications, empty_skips, seen_skips >>
    /\ UNCHANGED << main_vars, fetch_vars, files, call_vars >>

\* lines 201-217
EmitPublication ==
    /\ InLoop
    /\ all_items[idx].shape = "ok"
    /\ TitleOf(all_items[idx]) # << >>
    /\ ~IsDuplicate(TitleOf(all_items[idx]), duplicate_checker)
    /\ duplicate_checker' = duplicate_checker \cup { TitleOf(all_items[idx]) }
    /\ filtered_publications' =
           Append(filtered_publications,
                  Publication(TitleOf(all_items[idx]), all_items[idx], idx))
    /\ idx' = idx + 1
    /\ UNCHANGED << pc, all_items, errors, empty_skips, seen_skips >>
    /\ UNCHANGED << main_vars, fetch_vars, files, call_vars >>

\* lines 224-241: after the last entry, sort, report and return
SortAndReturn ==
    /\ pc = "process"
    /\ idx > Len(all_items)
    /\ filtered_publications' = SortByYearDesc(filtered_publications)
    /\ pc' = "processed"
    /\ UNCHANGED << all_items, idx, duplicate_checker, errors, empty_skips, seen_skips >>
    /\ UNCHANGED << main_vars, fetch_vars, files, call_vars >>

ProcessNext ==
    \/ EntryRaises
    \/ SkipEmptyTitle
    \/ SkipDuplicate
    \/ BuildRaises
    \/ EmitPublication
    \/ SortAndReturn

----------------------------------------------------------------------------
(* main and export_publications *)

OutputFiles == << "csv", "json", "yaml" >>
AllFiles == { OutputFiles[i] : i \in DOMAIN OutputFiles }

\* `not parsed_args.x`: None or the empty string
Missing(setting) == setting = ""

ConfigMissing == Missing(api_key) \/ Missing(group_id) \/ Missing(collection_key)

\* the exit status returned when nothing was fetched or nothing survived
EmptyResultStatus == 1

\* lines 324-337
ConfigCheckFails ==
    /\ pc = "main"
    /\ ConfigMissing
    /\ stages' = Append(stages, "config")
    /\ exit_code' = << 1 >>
    /\ pc' = "exit"
    /\ UNCHANGED << api_key, group_id, collection_key, base_url >>
    /\ UNCHANGED << fetch_vars, all_items, process_vars, files, call_vars >>

\* lines 324-365: the settings are there; choose the endpoint and call
\* fetch_all_items(base_url, headers)
ConfigCheckPasses ==
    /\ pc = "main"
    /\ ~ConfigMissing
    /\ stages' = stages \o << "config", "fetch" >>
    /\ base_url' = IF collection_key # "VD8Z582Z" THEN "collection" ELSE "group"
    /\ pc' = "fetch"
    /\ UNCHANGED << exit_code, api_key, group_id, collection_key >>
    /\ UNCHANGED << fetch_vars, all_items, process_vars, files, call_vars >>

\* lines 368-370
NoItems ==
    /\ pc = "fetched"
    /\ all_items = << >>
    /\ exit_code' = << EmptyResultStatus >>
    /\ pc' = "exit"
    /\ UNCHANGED << stages, api_key, group_id, collection_key, base_url >>
    /\ UNCHANGED << fetch_vars, all_items, process_vars, files, call_vars >>

\* the test of line 368 left out (a plausible slip)
HaveItemsUnchecked(items) == TRUE

\* line 368
HaveItems(items) == items # << >>

\* line 375: call process_publications(all_items)
StartProcess ==
    /\ pc = "fetched"
    /\ HaveItems(all_items)
    /\ stages' = Append(stages, "process")
    /\ pc' = "process"
    /\ UNCHANGED << exit_code, api_key, group_id, collection_key, base_url >>
    /\ UNCHANGED << fetch_vars, all_items, process_vars, files, call_vars >>

\* lines 378-380
NoPublications ==
    /\ pc = "processed"
    /\ filtered_publications = << >>
    /\ exit_code' = << EmptyResultStatus >>
    /\ pc' = "exit"
    /\ UNCHANGED << stages, api_key, group_id, collection_key, base_url >>
    /\ UNCHANGED << fetch_vars, all_items, process_vars, files, call_vars >>

\* line 385: call export_publications
StartExport ==
    /\ pc = "processed"
    /\ filtered_publications # << >>
    /\ stages' = Append(stages, "export")
    /\ pc' = "export"
    /\ UNCHANGED << exit_code, api_key, group_id, collection_key, base_url >>
    /\ UNCHANGED << fetch_vars, all_items, process_vars, files, call_vars >>

\* lines 264-286: the next of the three files, in the order csv, json, yaml
WriteFile ==
    /\ pc = "export"
    /\ files # AllFiles
    /\ files' = files \cup { OutputFiles[Cardinality(files) + 1] }
    /\ UNCHANGED << pc, main_vars, fetch_vars, all_items, process_vars, call_vars >>

\* mkdir, open or a write raises OSError: nothing in main catches it, the
\* interpreter prints the traceback and exits with status 1
ExportRaises ==
    /\ pc = "export"
    /\ files # AllFiles
    /\ exit_code' = << 1 >>
    /\ pc' = "exit"
    /\ UNCHANGED << stages, api_key, group_id, collection_key, base_url >>
    /\ UNCHANGED << fetch_vars, all_items, process_vars, files, call_vars >>

\* lines 288, 388-403: export_publications returns, main returns 0
ExportReturns ==
    /\ pc = "export"
    /\ files = AllFiles
    /\ exit_code' = << 0 >>
    /\ pc' = "exit"
    /\ UNCHANGED << stages, api_key, group_id, collection_key, base_url >>
    /\ UNCHANGED << fetch_vars, all_items, process_vars, files, call_vars >>

MainNext ==
    \/ ConfigCheckFails
    \/ ConfigCheckPasses
    \/ RequestPage
    \/ RequestEmpty
    \/ RequestFails
    \/ NoItems
    \/ StartProcess
    \/ EntryRaises
    \/ SkipEmptyTitle
    \/ SkipDuplicate
    \/ BuildRaises
    \/ EmitPublication
    \/ SortAndReturn
    \/ NoPublications
    \/ StartExport
    \/ WriteFile
    \/ ExportRaises
    \/ ExportReturns

----------------------------------------------------------------------------
(* Calls of the two normalizers *)

CallExtractYear ==
    /\ pc = "call_extract_year"
    /\ result' = extract_year(arg)
    /\ pc' = "returned"
    /\ UNCHANGED << arg, main_vars, fetch_vars, all_items, process_vars, files >>

CallAssignRegion ==
    /\ pc = "call_assign_region"
    /\ result' = assign_region(arg)
    /\ pc' = "returned"
    /\ UNCHANGED << arg, main_vars, fetch_vars, all_items, process_vars, files >>

----------------------------------------------------------------------------
(* Initial states and specifications *)

MainIdle ==
    /\ exit_code = << >>
    /\ stages = << >>
    /\ base_url = "unset"
    /\ files = {}

SettingsGiven ==
    /\ api_key = "key"
    /\ group_id = "group"
    /\ collection_key = "collection"

\* fetch_all_items at line 135, before its first request
FetchEntry ==
    /\ start = 0
    /\ retry_count = 0
    /\ response = NoResponse
    /\ slept = 0
    /\ requests = 0
    /\ fail_run = 0

\* process_publications at line 189, before its first entry
ProcessEntry ==
    /\ idx = 1
    /\ filtered_publications = << >>
    /\ duplicate_checker = {}
    /\ errors = 0
    /\ empty_skips = 0
    /\ seen_skips = 0

CallIdle == arg = << >> /\ result = << >>

\* a call fetch_all_items(base_url, headers, batch_size)
FetchInit ==
    /\ pc = "fetch"
    /\ remote \in SeqsUpTo(FetchRecords, MaxRemote)
    /\ batch_size \in BatchSizes
    /\ all_items = << >>
    /\ FetchEntry /\ ProcessEntry /\ MainIdle /\ SettingsGiven /\ CallIdle

SpecFetch == FetchInit /\ [][FetchNext]_vars

\* every request is eventually answered
SpecFetchLive == FetchInit /\ [][FetchNext]_vars /\ WF_vars(FetchNext)

\* a call process_publications(all_items)
ProcessInit ==
    /\ pc = "process"
    /\ all_items \in SeqsUpTo(ProcessRecords, MaxItems)
    /\ remote = << >>
    /\ batch_size = DefaultBatchSize
    /\ FetchEntry /\ ProcessEntry /\ MainIdle /\ SettingsGiven /\ CallIdle

SpecProcess == ProcessInit /\ [][ProcessNext]_vars

\* a run of main, after the arguments are parsed (line 321)
MainInit ==
    /\ pc = "main"
    /\ api_key \in {"", "key"}
    /\ group_id \in {"", "group"}
    /\ collection_key \in {"", "VD8Z582Z", "collection"}
    /\ remote \in SeqsUpTo(MainRecords, MaxMainRemote)
    /\ batch_size = DefaultBatchSize
    /\ all_items = << >>
    /\ FetchEntry /\ ProcessEntry /\ MainIdle /\ CallIdle

SpecMain == MainInit /\ [][MainNext]_vars

\* the fragments date texts are made of
DateChunks ==
    { <<"1", "9", "9", "9">>, <<"2", "0", "0", "5">>, <<"1", "2">>, <<"3">>,
      <<"a">>, <<"_">>, <<"-">>, <<" ">> }

DateTexts == { Concat(cs) : cs \in SeqsUpTo(DateChunks, MaxChunks) }

YearInit ==
    /\ pc = "call_extract_year"
    /\ arg \in DateTexts
    /\ result = << >>
    /\ remote = << >>
    /\ batch_size = DefaultBatchSize
    /\ all_items = << >>
    /\ FetchEntry /\ ProcessEntry /\ MainIdle /\ SettingsGiven

SpecYear == YearInit /\ [][CallExtractYear]_vars

\* the fragments titles are made of
TitleChunks ==
    { <<"G", "u", "a", "m">>, <<"P", "A", "C", "I", "F", "I", "C">>,
      <<"H", "a", "w", "a", "i">>, <<"S", "a", "m", "o", "a">>,
      <<"W", "a", "k", "e">>, <<"r", "e", "e", "f">>, <<" ">>, <<"O">>,
      <<"a", "h", "u">>, <<"R", "o", "t", "a">> }

Titles == { Concat(cs) : cs \in SeqsUpTo(TitleChunks, MaxChunks) }

RegionInit ==
    /\ pc = "call_assign_region"
    /\ arg \in Titles
    /\ result = << >>
    /\ remote = << >>
    /\ batch_size = DefaultBatchSize
    /\ all_items = << >>
    /\ FetchEntry /\ ProcessEntry /\ MainIdle /\ SettingsGiven

SpecRegion == RegionInit /\ [][CallAssignRegion]_vars

----------------------------------------------------------------------------
(* Properties of fetch_all_items, under SpecFetch *)

\* the records of the pages at the offsets before `offset`
FetchedBefore(offset) == SubSeq(remote, 1, Min(offset, Len(remote)))

Failed(resp) == resp.kind \in {"no_response", "http_error"}

\* C1: as long as no offset has had 3 requests fail in a row, a failed request
\* is retried at the same offset and the retry counter counts only the
\* failures since the last page (so the items held are exactly the pages
\* before the current offset, whatever the total number of failures), and
\* the list returned is the whole collection, each record once, in order.
C1_CompleteUnlessThreeFailuresInARow ==
    /\ pc = "fetch" =>
          /\ retry_count = fail_run
          /\ all_items = FetchedBefore(start)
    /\ (pc = "fetched" /\ fail_run < 3) => all_items = remote

\* C1 witness: two failures then a success at each of three offsets (two
\* pages of one record and the final empty page), nine requests in all.
C1_Witness ==
    /\ pc = "fetched"
    /\ batch_size = 1
    /\ Len(remote) = 2
    /\ requests = 9
    /\ response.kind = "empty"
    /\ all_items = remote

\* C2: once 3 requests in a row have failed the call has returned (no request
\* follows, nothing is raised) with exactly the records of the pages fetched
\* at the earlier offsets; and a return that follows a failed request follows
\* the third failure in a row, never an earlier one.
C2_AbortAfterThreeFailures ==
    /\ fail_run >= 3 =>
          /\ fail_run = 3
          /\ pc = "fetched"
          /\ Failed(response)
          /\ all_items = FetchedBefore(start)
    /\ (pc = "fetched" /\ Failed(response)) => fail_run = 3

\* C2 witness: the third failure in a row comes after some pages, before the
\* end of the collection.
C2_Witness ==
    /\ pc = "fetched"
    /\ fail_run = 3
    /\ all_items # << >>
    /\ all_items # remote

\* C2 witness for the first offset: nothing was fetched, the empty list returns.
C2_WitnessFirstOffset ==
    /\ pc = "fetched"
    /\ fail_run = 3
    /\ remote # << >>
    /\ all_items = << >>

\* C8 (as claimed): before the next request, the sleep after an answer that
\* carries a Backoff directive of N seconds is N seconds, and the sleep after
\* a page without a directive is 0.5 seconds.
C8_BackoffAlwaysHonoured ==
    (pc = "fetch" /\ requests > 0) =>
        /\ response.has_backoff => slept = 1000 * response.backoff
        /\ (response.kind = "page" /\ ~response.has_backoff) => slept = 500

\* C9: under SpecFetchLive (every request is answered) the loop ends; each
\* non-empty page moves the offset forward; the loop goes on after at most 2
\* failures in a row; an empty page ends it at once; and it ends only on an
\* empty page or on the third failure in a row.
C9_FetchTerminates ==
    /\ <>(pc = "fetched")
    /\ [][(requests' # requests /\ response'.kind = "page") => start' > start]_vars
    /\ [][(requests' # requests /\ response'.kind = "empty") => pc' = "fetched"]_vars
    /\ [](pc = "fetch" => fail_run <= 2)
    /\ [](pc = "fetched" => (response.kind = "empty" \/ fail_run = 3))

\* C9 witness: the loop reached the empty page although requests failed on
\* the way (more requests than pages).
C9_Witness ==
    /\ pc = "fetched"
    /\ response.kind = "empty"
    /\ batch_size = 1
    /\ Len(remote) >= 2
    /\ requests > Len(remote) + 1

----------------------------------------------------------------------------
(* Properties of process_publications, under SpecProcess *)

\* the entries whose title can be read and, trimmed, is t
Carriers(t) ==
    { i \in DOMAIN all_items : all_items[i].shape # "bad_entry" /\ TitleOf(all_items[i]) = t }

\* the non-empty trimmed titles that occur in the input
TitlesIn ==
    { TitleOf(all_items[i]) : i \in { j \in DOMAIN all_items : all_items[j].shape # "bad_entry" } }
        \ { << >> }

FirstCarrier(t) == CHOOSE i \in Carriers(t) : \A j \in Carriers(t) : i <= j

PubsTitled(t) ==
    { k \in DOMAIN filtered_publications : filtered_publications[k].title = t }

BuiltFromFirst(t) ==
    /\ Cardinality(PubsTitled(t)) = 1
    /\ \A k \in PubsTitled(t) :
          filtered_publications[k] =
              Publication(t, all_items[FirstCarrier(t)], FirstCarrier(t))

\* C3 (as claimed): every non-empty trimmed title of the input has exactly one
\* Publication in the output, the one built from the first record carrying it.
C3_OnePublicationPerTitle ==
    pc = "processed" => \A t \in TitlesIn : BuiltFromFirst(t)

\* C3 (amended): every non-empty trimmed title of the input has at most one
\* Publication in the output: exactly one, built from the first record
\* carrying the title, when building that first record does not raise, and
\* none when it raises (the title is recorded as seen before the record is
\* built, so the later records with that title are dropped as duplicates).
C3_OnePublicationPerTitleUnlessFirstRaises ==
    pc = "processed" =>
        \A t \in TitlesIn :
            IF all_items[FirstCarrier(t)].shape = "ok"
            THEN BuiltFromFirst(t)
            ELSE PubsTitled(t) = {}

\* C3 witness: two well-formed records with the same trimmed title and
\* different dates; the output holds the Publication of the first.
C3_Witness ==
    /\ pc = "processed"
    /\ \E i, j \in DOMAIN all_items :
          /\ i < j
          /\ all_items[i].shape = "ok" /\ all_items[j].shape = "ok"
          /\ TitleOf(all_items[i]) # << >>
          /\ TitleOf(all_items[i]) = TitleOf(all_items[j])
          /\ all_items[i].title # all_items[j].title
          /\ extract_year(all_items[i].date) # extract_year(all_items[j].date)
          /\ \E k \in DOMAIN filtered_publications :
                /\ filtered_publications[k].src = i
                /\ filtered_publications[k].year = extract_year(all_items[i].date)

YearOrZero(pub) == IF pub.year = << >> THEN 0 ELSE pub.year[1]

\* C4: the list returned is non-increasing by year with an absent year read as
\* 0, so an undated Publication never precedes one with a positive year.
C4_SortedByYearDescending ==
    pc = "processed" =>
        \A i, j \in DOMAIN filtered_publications :
            i < j =>
                /\ YearOrZero(filtered_publications[i]) >= YearOrZero(filtered_publications[j])
                /\ ~ /\ filtered_publications[i].year = << >>
                     /\ filtered_publications[j].year # << >>
                     /\ filtered_publications[j].year[1] > 0

\* C4 witness: an undated Publication met before a dated one comes after it
\* in the output.
C4_Witness ==
    /\ pc = "processed"
    /\ \E i, j \in DOMAIN filtered_publications :
          /\ i < j
          /\ filtered_publications[i].src > filtered_publications[j].src
          /\ filtered_publications[j].year = << >>
          /\ filtered_publications[i].year # << >>

\* C10: the call never stops short of returning; every entry visited so far
\* had exactly one of the four outcomes (emitted, counted as an error, skipped
\* for an empty title, skipped as already seen); and on return the
\* "Duplicates removed" figure is the number of the two kinds of skip, hence
\* not negative.
C10_EveryRecordHasOneOutcome ==
    /\ pc = "processed" \/ ENABLED ProcessNext
    /\ idx - 1 = Len(filtered_publications) + errors + empty_skips + seen_skips
    /\ errors >= 0 /\ empty_skips >= 0 /\ seen_skips >= 0
    /\ pc = "processed" =>
          /\ idx = Len(all_items) + 1
          /\ DuplicatesRemoved = empty_skips + seen_skips
          /\ DuplicatesRemoved >= 0

\* C10 witness: a run with an error, an empty-title skip and an already-seen
\* skip.
C10_Witness ==
    /\ pc = "processed"
    /\ errors > 0
    /\ empty_skips > 0
    /\ seen_skips > 0
    /\ DuplicatesRemoved = 2

----------------------------------------------------------------------------
(* Properties of main, under SpecMain *)

StageOrder == << "config", "fetch", "process", "export" >>

IsPrefix(s, t) == Len(s) <= Len(t) /\ \A i \in DOMAIN s : s[i] = t[i]

C7_WitnessNoPublications ==
    /\ pc = "exit"
    /\ exit_code = << 1 >>
    /\ all_items # << >>
    /\ filtered_publications = << >>
    /\ files = {}

----------------------------------------------------------------------------
(* Properties of assign_region, under SpecRegion *)

GroupOrder ==
    << [name |-> "Hawaiian Archipelago", keywords |-> HawaiianKeywords],
       [name |-> "American Samoa", keywords |-> SamoaKeywords],
       [name |-> "Mariana Archipelago", keywords |-> MarianaKeywords],
       [name |-> "Pacific Remote Island Areas", keywords |-> PRIAKeywords],
       [name |-> "Pacific-wide", keywords |-> << PacificKeyword >>] >>

\* keyword occurs in title, letter case aside
OccursIgnoringCase(title, keyword) ==
    \E p \in 0..(Len(title) - Len(keyword)) :
        \A k \in 1..Len(keyword) : LowerChar(title[p + k]) = LowerChar(keyword[k])

GroupMatches(g, title) ==
    \E n \in DOMAIN GroupOrder[g].keywords :
        OccursIgnoringCase(title, GroupOrder[g].keywords[n])

FirstMatchingGroup(title) ==
    LET matching == { g \in DOMAIN GroupOrder : GroupMatches(g, title) }
    IN  IF matching = {} THEN "Unknown"
        ELSE GroupOrder[CHOOSE g \in matching : \A h \in matching : g <= h].name

MarianaAndPacific(title) == GroupMatches(3, title) /\ GroupMatches(5, title)

\* C5 (as claimed): the region is the first group, in priority order, with a
\* case-insensitive match, Unknown if none; and a title matching a Mariana
\* keyword and "pacific" is Mariana Archipelago.
C5_FirstGroupAndMarianaOverPacific ==
    pc = "returned" =>
        /\ result = FirstMatchingGroup(arg)
        /\ MarianaAndPacific(arg) => result = "Mariana Archipelago"

\* C5 (amended): the region is the first group, in priority order, with a
\* case-insensitive match, Unknown if none; a title matching a Mariana keyword
\* and "pacific" is never Pacific-wide, and is Mariana Archipelago unless a
\* Hawaiian or American Samoa keyword matches too.
C5_FirstGroupInPriorityOrder ==
    pc = "returned" =>
        /\ result = FirstMatchingGroup(arg)
        /\ arg = << >> => result = "Unknown"
        /\ MarianaAndPacific(arg) =>
              /\ result # "Pacific-wide"
              /\ (~GroupMatches(1, arg) /\ ~GroupMatches(2, arg)) =>
                    result = "Mariana Archipelago"

\* C5 witness: a title with "Guam" and "PACIFIC" classified Mariana Archipelago.
C5_Witness ==
    /\ pc = "returned"
    /\ MarianaAndPacific(arg)
    /\ result = "Mariana Archipelago"

----------------------------------------------------------------------------
(* Properties of extract_year, under SpecYear *)

RECURSIVE Decimal(_)
Decimal(ds) ==
    IF ds = << >> THEN 0 ELSE 10 * Decimal(SubSeq(ds, 1, Len(ds) - 1)) + DigitValue[ds[Len(ds)]]

\* a run of exactly four digits at p with a non-digit or an edge on each side
DigitBoundedRun(s, p) ==
    /\ p + 3 <= Len(s)
    /\ \A k \in 0..3 : s[p + k] \in Digits
    /\ p = 1 \/ s[p - 1] \notin Digits
    /\ p + 4 > Len(s) \/ s[p + 4] \notin Digits

\* a run of four digits at p with, on each side, an edge or a character that
\* is neither a letter, a digit nor an underscore
WordBoundedRun(s, p) ==
    /\ p + 3 <= Len(s)
    /\ \A k \in 0..3 : s[p + k] \in Digits
    /\ p = 1 \/ ~IsWordChar(s[p - 1])
    /\ p + 4 > Len(s) \/ ~IsWordChar(s[p + 4])

LeftmostValue(s, runs) ==
    IF runs = {} THEN << >>
    ELSE LET p == CHOOSE q \in runs : \A r \in runs : q <= r
         IN  << Decimal(SubSeq(s, p, p + 3)) >>

\* C6 (as claimed): the result is the value of the leftmost run of exactly four
\* digits bounded by non-digits or string edges, absent if there is none.
C6_LeftmostDigitBoundedRun ==
    pc = "returned" =>
        result = LeftmostValue(arg, { p \in 1..Len(arg) : DigitBoundedRun(arg, p) })

\* C6 (amended): the result is the value of the leftmost run of four digits
\* bounded on each side by a string edge or a character that is neither a
\* letter, a digit nor an underscore; absent if there is none.
C6_LeftmostWordBoundedRun ==
    pc = "returned" =>
        result = LeftmostValue(arg, { p \in 1..Len(arg) : WordBoundedRun(arg, p) })

\* C6 witness: a date text with two such runs; the value of the first returns.
C6_Witness ==
    /\ pc = "returned"
    /\ \E p, q \in 1..Len(arg) :
          /\ p < q
          /\ WordBoundedRun(arg, p) /\ WordBoundedRun(arg, q)
          /\ SubSeq(arg, p, p + 3) # SubSeq(arg, q, q + 3)
          /\ result = << Decimal(SubSeq(arg, p, p + 3)) >>

====
